---- MODULE Spec2Model ----
(***************************************************************************)
(* State-machine model of the crush execution core:                        *)
(*   - src/src/scope/data.rs      ScopeData (scope tree, break/continue)   *)
(*   - src/src/lang/command.rs    Closure::invoke (stage pipeline) and     *)
(*                                ArgumentVector (argument accessors)      *)
(*   - src/src/lib/control/for.rs the for command                          *)
(*   - src/src/lang/struct.rs     Struct (records) and StructReader        *)
(***************************************************************************)
EXTENDS Integers, Sequences, FiniteSets, TLC

(***************************************************************************)
(* Bounds of the model.                                                    *)
(***************************************************************************)
MaxScopes == 4

\* Scopes of the variable-resolution specification.
MaxVarScopes == 3

\* Scopes that exist before a command is invoked in the pipeline specification.
MaxEnvScopes == 2

\* Stages of a closure (length of job_definitions).
MaxStages == 3

\* Rows in an input stream.
MaxRows == 2

\* Scopes that exist before a closure is invoked in the binding specification, and
\* the stages of that closure.
MaxCallScopes == 3

MaxCallStages == 1

\* Scopes of the specification of uses, and the scopes one scope registers.
MaxUseScopes == 2

MaxUses == 1

\* Arguments in the vector the accessors are applied to.
MaxArgs == 2

\* Records, and the pairs (or values and columns) a record is constructed from.
MaxRecords == 2

MaxFields == 2

\* Records of the delegation specification (a parent and the children that share
\* it), and the pairs each of them is constructed from.
MaxFamily == 3

MaxOwn == 1

Names == {"x", "this"}

\* Names user code declares and assigns (this is bound by invoke only).
VarNames == {"x"}

\* Option::None for a scope reference (scope ids are 1..Len(scopes)).
None == 0

\* Values carry their runtime type (Value::value_type) and a payload.
Values == {[t |-> "integer", v |-> 1], [t |-> "integer", v |-> 2], [t |-> "string", v |-> 1]}

\* Option::None for a Value (absent from the HashMap / nothing returned).
NoValue == [t |-> "none", v |-> 0]

value_type(val) == val.t

VARIABLES
    scopes,     \* Seq of ScopeData, one per Arc<Mutex<ScopeData>> ever created
    before,     \* the scopes as they were when the last scope operation was issued
    last,       \* the last scope operation and what it returned
    pc,         \* where the invoked command stands
    cmd,        \* the command invoked: "none", "closure" or "for"
    closure,    \* the Closure: job_definitions (their number) and env
    context,    \* the ExecutionContext Closure::invoke was called with
    env,        \* the child scope Closure::invoke created
    idx,        \* the stage Closure::invoke is at (1-based)
    stages,     \* the stages the current invocation has started
    chans,      \* every stream created so far
    result,     \* what the current Closure::invoke returned
    floop,      \* the locals of the for command
    stopped_in, \* the stage during which env became stopped (0: none)
    failed,     \* the stages whose invoke returned an error, with the row for was at
    records,    \* Seq of StructData, one per Arc<Mutex<StructData>> ever created
    rbefore,    \* the records as they were when the last record operation was issued
    rlast,      \* the last record operation and what it returned
    reader,     \* the StructReader, and the records as they were when it was created
    args,       \* the Vec<Argument> the accessors of ArgumentVector are applied to
    args0,      \* that vector as it was constructed
    alast       \* the last accessor applied and what it returned

scopeVars == <<scopes, before, last>>

\* The records, the record reader and the argument vector.
dataVars == <<records, rbefore, rlast, reader, args, args0, alast>>

pipeVars == <<pc, cmd, closure, context, env, idx, stages, chans, result, floop, stopped_in,
              failed, dataVars>>

vars == <<scopes, before, last, pc, cmd, closure, context, env, idx, stages, chans, result,
          floop, stopped_in, failed, records, rbefore, rlast, reader, args, args0, alast>>

Ids(S) == 1..Len(S)

Range(f) == {f[i] : i \in DOMAIN f}

(***************************************************************************)
(* ScopeData::new                                                          *)
(***************************************************************************)
new(parent_scope, caller, is_loop) ==
    [parent_scope  |-> parent_scope,
     calling_scope |-> caller,
     uses          |-> <<>>,
     data          |-> [n \in Names |-> NoValue],
     is_loop       |-> is_loop,
     is_stopped    |-> FALSE,
     is_readonly   |-> FALSE]

\* HashMap::contains_key on the scope's own data
contains_key(S, s, name) == S[s].data[name] # NoValue

(***************************************************************************)
(* ScopeData::readonly                                                     *)
(***************************************************************************)
readonly(S, s) == [S EXCEPT ![s].is_readonly = TRUE]

\* do_break that reports success through a non-loop frame without stopping it
RECURSIVE do_break_unmarked(_, _)
do_break_unmarked(S, s) ==
    IF S[s].is_readonly THEN [ok |-> FALSE, scopes |-> S]
    ELSE IF S[s].is_loop
    THEN [ok |-> TRUE, scopes |-> [S EXCEPT ![s].is_stopped = TRUE]]
    ELSE IF S[s].calling_scope = None
    THEN [ok |-> FALSE, scopes |-> S]
    ELSE do_break_unmarked(S, S[s].calling_scope)

\* do_break that takes the end of the caller chain for success (unwrap_or(true))
RECURSIVE do_break_rootless(_, _)
do_break_rootless(S, s) ==
    IF S[s].is_readonly THEN [ok |-> FALSE, scopes |-> S]
    ELSE IF S[s].is_loop
    THEN [ok |-> TRUE, scopes |-> [S EXCEPT ![s].is_stopped = TRUE]]
    ELSE LET r == IF S[s].calling_scope = None
                  THEN [ok |-> TRUE, scopes |-> S]
                  ELSE do_break_rootless(S, S[s].calling_scope)
         IN  IF ~r.ok
             THEN [ok |-> FALSE, scopes |-> r.scopes]
             ELSE [ok |-> TRUE, scopes |-> [r.scopes EXCEPT ![s].is_stopped = TRUE]]

(***************************************************************************)
(* ScopeData::do_break: returns [ok, scopes]                               *)
(***************************************************************************)
RECURSIVE do_break(_, _)
do_break(S, s) ==
    IF S[s].is_readonly THEN [ok |-> FALSE, scopes |-> S]
    ELSE IF S[s].is_loop
    THEN [ok |-> TRUE, scopes |-> [S EXCEPT ![s].is_stopped = TRUE]]
    ELSE LET r == IF S[s].calling_scope = None
                  THEN [ok |-> FALSE, scopes |-> S]
                  ELSE do_break(S, S[s].calling_scope)
         IN  IF ~r.ok
             THEN [ok |-> FALSE, scopes |-> r.scopes]
             ELSE [ok |-> TRUE, scopes |-> [r.scopes EXCEPT ![s].is_stopped = TRUE]]

\* do_continue that stops the loop frame as do_break does
RECURSIVE do_continue_stops_loop(_, _)
do_continue_stops_loop(S, s) ==
    IF S[s].is_readonly THEN [ok |-> FALSE, scopes |-> S]
    ELSE IF S[s].is_loop
    THEN [ok |-> TRUE, scopes |-> [S EXCEPT ![s].is_stopped = TRUE]]
    ELSE LET r == IF S[s].calling_scope = None
                  THEN [ok |-> FALSE, scopes |-> S]
                  ELSE do_continue_stops_loop(S, S[s].calling_scope)
         IN  IF ~r.ok
             THEN [ok |-> FALSE, scopes |-> r.scopes]
             ELSE [ok |-> TRUE, scopes |-> [r.scopes EXCEPT ![s].is_stopped = TRUE]]

\* do_continue that clears the loop frame's flag for its next iteration
RECURSIVE do_continue_restarts_loop(_, _)
do_continue_restarts_loop(S, s) ==
    IF S[s].is_readonly THEN [ok |-> FALSE, scopes |-> S]
    ELSE IF S[s].is_loop
    THEN [ok |-> TRUE, scopes |-> [S EXCEPT ![s].is_stopped = FALSE]]
    ELSE LET r == IF S[s].calling_scope = None
                  THEN [ok |-> FALSE, scopes |-> S]
                  ELSE do_continue_restarts_loop(S, S[s].calling_scope)
         IN  IF ~r.ok
             THEN [ok |-> FALSE, scopes |-> r.scopes]
             ELSE [ok |-> TRUE, scopes |-> [r.scopes EXCEPT ![s].is_stopped = TRUE]]

(***************************************************************************)
(* ScopeData::do_continue: returns [ok, scopes]                            *)
(***************************************************************************)
RECURSIVE do_continue(_, _)
do_continue(S, s) ==
    IF S[s].is_readonly THEN [ok |-> FALSE, scopes |-> S]
    ELSE IF S[s].is_loop
    THEN [ok |-> TRUE, scopes |-> S]
    ELSE LET r == IF S[s].calling_scope = None
                  THEN [ok |-> FALSE, scopes |-> S]
                  ELSE do_continue(S, S[s].calling_scope)
         IN  IF ~r.ok
             THEN [ok |-> FALSE, scopes |-> r.scopes]
             ELSE [ok |-> TRUE, scopes |-> [r.scopes EXCEPT ![s].is_stopped = TRUE]]

(***************************************************************************)
(* ScopeData::is_stopped                                                   *)
(***************************************************************************)
is_stopped(S, s) == S[s].is_stopped

\* set without the is_readonly check on the declaring scope
RECURSIVE set_unguarded(_, _, _, _)
set_unguarded(S, s, name, value) ==
    IF ~contains_key(S, s, name)
    THEN IF S[s].parent_scope # None
         THEN set_unguarded(S, S[s].parent_scope, name, value)
         ELSE [res |-> "UnknownVariable", scopes |-> S]
    ELSE IF value_type(S[s].data[name]) # value_type(value)
    THEN [res |-> "TypeMismatch", scopes |-> S]
    ELSE [res |-> "Ok", scopes |-> [S EXCEPT ![s].data[name] = value]]

\* set that looks the name up along the calling scopes
RECURSIVE set_by_caller(_, _, _, _)
set_by_caller(S, s, name, value) ==
    IF ~contains_key(S, s, name)
    THEN IF S[s].calling_scope # None
         THEN set_by_caller(S, S[s].calling_scope, name, value)
         ELSE [res |-> "UnknownVariable", scopes |-> S]
    ELSE IF S[s].is_readonly
    THEN [res |-> "ReadOnly", scopes |-> S]
    ELSE IF value_type(S[s].data[name]) # value_type(value)
    THEN [res |-> "TypeMismatch", scopes |-> S]
    ELSE [res |-> "Ok", scopes |-> [S EXCEPT ![s].data[name] = value]]

\* set without the comparison of value types
RECURSIVE set_untyped(_, _, _, _)
set_untyped(S, s, name, value) ==
    IF ~contains_key(S, s, name)
    THEN IF S[s].parent_scope # None
         THEN set_untyped(S, S[s].parent_scope, name, value)
         ELSE [res |-> "UnknownVariable", scopes |-> S]
    ELSE IF S[s].is_readonly
    THEN [res |-> "ReadOnly", scopes |-> S]
    ELSE [res |-> "Ok", scopes |-> [S EXCEPT ![s].data[name] = value]]

(***************************************************************************)
(* ScopeData::set: returns [res, scopes], res one of                       *)
(* "Ok", "UnknownVariable", "ReadOnly", "TypeMismatch"                     *)
(***************************************************************************)
RECURSIVE set(_, _, _, _)
set(S, s, name, value) ==
    IF ~contains_key(S, s, name)
    THEN IF S[s].parent_scope # None
         THEN set(S, S[s].parent_scope, name, value)
         ELSE [res |-> "UnknownVariable", scopes |-> S]
    ELSE IF S[s].is_readonly
    THEN [res |-> "ReadOnly", scopes |-> S]
    ELSE IF value_type(S[s].data[name]) # value_type(value)
    THEN [res |-> "TypeMismatch", scopes |-> S]
    ELSE [res |-> "Ok", scopes |-> [S EXCEPT ![s].data[name] = value]]

(***************************************************************************)
(* ScopeData::dump: the map after the call, starting from map              *)
(* (a function Names -> type tag or "none")                                *)
(***************************************************************************)
RECURSIVE dump(_, _, _)
dump(S, s, map) ==
    LET m == IF S[s].parent_scope # None THEN dump(S, S[s].parent_scope, map) ELSE map
    IN  [n \in Names |-> IF contains_key(S, s, n) THEN value_type(S[s].data[n]) ELSE m[n]]

(***************************************************************************)
(* ScopeData::remove: returns [val, scopes]                                *)
(***************************************************************************)
RECURSIVE remove(_, _, _)
remove(S, s, name) ==
    IF ~contains_key(S, s, name)
    THEN IF S[s].parent_scope # None
         THEN remove(S, S[s].parent_scope, name)
         ELSE [val |-> NoValue, scopes |-> S]
    ELSE IF S[s].is_readonly
    THEN [val |-> NoValue, scopes |-> S]
    ELSE [val |-> S[s].data[name], scopes |-> [S EXCEPT ![s].data[name] = NoValue]]

(***************************************************************************)
(* ScopeData::uses                                                         *)
(***************************************************************************)
uses(S, s, other) == [S EXCEPT ![s].uses = Append(@, other)]

(***************************************************************************)
(* Scope::create_child (caller of ScopeData::new): the child's lexical     *)
(* parent is the receiver, its dynamic caller the argument.                *)
(***************************************************************************)
create_child(S, parent, caller, is_loop) == Append(S, new(parent, caller, is_loop))

(***************************************************************************)
(* Scope::redeclare: binds name in the given scope itself.                 *)
(***************************************************************************)
redeclare(S, s, name, value) == [S EXCEPT ![s].data[name] = value]

NoMap == [n \in Names |-> "none"]

NoOp == [op |-> "none", scope |-> None, name |-> "", value |-> NoValue, ok |-> FALSE,
         res |-> "", map |-> NoMap]

NoClosure == [job_definitions |-> 0, env |-> None]

NoContext == [input |-> 0, output |-> 0, arguments |-> <<>>, env |-> None, this |-> NoValue]

NoLoop == [env |-> None, input |-> 0, loop_env |-> None, output |-> 0, rows |-> 0,
           result |-> "none"]

\* No record operation, no StructReader, no accessor yet (taken: the indices an
\* accessor has replaced so far).
NoRecOp == [op |-> "none", rec |-> None, other |-> None, name |-> "", value |-> NoValue,
            ret |-> NoValue, eq |-> FALSE, keys |-> <<>>, map |-> <<>>, get |-> <<>>,
            res |-> "", row |-> <<>>, elements |-> <<>>, hashes |-> <<>>,
            at |-> None, seen |-> {}]

NoReader == [idx |-> 0, rows |-> <<>>, of |-> None, at |-> <<>>, got |-> <<>>]

NoArgOp == [op |-> "none", idx |-> 0, len |-> 0, res |-> "", ret |-> NoValue,
            before |-> <<>>, taken |-> {}, again |-> FALSE]

Init ==
    /\ scopes = <<new(None, None, FALSE)>>
    /\ before = scopes
    /\ last = NoOp
    /\ pc = "idle"
    /\ cmd = "none"
    /\ closure = NoClosure
    /\ context = NoContext
    /\ env = None
    /\ idx = 0
    /\ stages = <<>>
    /\ chans = <<>>
    /\ result = "none"
    /\ floop = NoLoop
    /\ stopped_in = 0
    /\ failed = <<>>
    /\ records = <<>>
    /\ rbefore = <<>>
    /\ rlast = NoRecOp
    /\ reader = NoReader
    /\ args = <<>>
    /\ args0 = <<>>
    /\ alast = NoArgOp

(***************************************************************************)
(* Operations on the scope tree                                            *)
(***************************************************************************)
CreateChild(p, c, l) ==
    /\ pc = "idle"
    /\ Len(scopes) < MaxScopes
    /\ scopes' = create_child(scopes, p, c, l)
    /\ before' = scopes'
    /\ last' = NoOp
    /\ UNCHANGED pipeVars

Readonly(s) ==
    /\ ~scopes[s].is_readonly
    /\ scopes' = readonly(scopes, s)
    /\ before' = scopes'
    /\ last' = NoOp
    /\ UNCHANGED pipeVars

Redeclare(s, n, v) ==
    /\ scopes' = redeclare(scopes, s, n, v)
    /\ before' = scopes'
    /\ last' = NoOp
    /\ UNCHANGED pipeVars

Break(s) ==
    LET r == do_break(scopes, s) IN
    /\ scopes' = r.scopes
    /\ before' = scopes
    /\ last' = [NoOp EXCEPT !.op = "break", !.scope = s, !.ok = r.ok]
    /\ UNCHANGED pipeVars

Continue(s) ==
    LET r == do_continue(scopes, s) IN
    /\ scopes' = r.scopes
    /\ before' = scopes
    /\ last' = [NoOp EXCEPT !.op = "continue", !.scope = s, !.ok = r.ok]
    /\ UNCHANGED pipeVars

Set(s, n, v) ==
    LET r == set(scopes, s, n, v) IN
    /\ scopes' = r.scopes
    /\ before' = scopes
    /\ last' = [NoOp EXCEPT !.op = "set", !.scope = s, !.name = n, !.value = v,
                            !.ok = (r.res = "Ok"), !.res = r.res]
    /\ UNCHANGED pipeVars

Remove(s, n) ==
    LET r == remove(scopes, s, n) IN
    /\ scopes' = r.scopes
    /\ before' = scopes
    /\ last' = [NoOp EXCEPT !.op = "remove", !.scope = s, !.name = n, !.value = r.val,
                            !.ok = (r.val # NoValue)]
    /\ UNCHANGED pipeVars

\* The control-flow operations on an arbitrary scope tree.
NextCtl ==
    \/ \E p \in Ids(scopes), c \in Ids(scopes), l \in BOOLEAN : CreateChild(p, c, l)
    \/ \E s \in Ids(scopes) : Readonly(s)
    \/ \E s \in Ids(scopes) : Break(s)
    \/ \E s \in Ids(scopes) : Continue(s)

SpecCtl == Init /\ [][NextCtl]_vars

\* The variable operations (and break/continue) on an arbitrary scope tree.
NextVar ==
    \/ \E p \in Ids(scopes), c \in Ids(scopes), l \in BOOLEAN :
          Len(scopes) < MaxVarScopes /\ CreateChild(p, c, l)
    \/ \E s \in Ids(scopes) : Readonly(s)
    \/ \E s \in Ids(scopes), n \in VarNames, v \in Values : Redeclare(s, n, v)
    \/ \E s \in Ids(scopes) : Break(s)
    \/ \E s \in Ids(scopes) : Continue(s)
    \/ \E s \in Ids(scopes), n \in VarNames, v \in Values : Set(s, n, v)
    \/ \E s \in Ids(scopes), n \in VarNames : Remove(s, n)

SpecVar == Init /\ [][NextVar]_vars

Uses(s, o) ==
    /\ Len(scopes[s].uses) < MaxUses
    /\ scopes' = uses(scopes, s, o)
    /\ before' = scopes'
    /\ last' = NoOp
    /\ UNCHANGED pipeVars

Dump(s) ==
    /\ scopes' = scopes
    /\ before' = scopes
    /\ last' = [NoOp EXCEPT !.op = "dump", !.scope = s, !.map = dump(scopes, s, NoMap)]
    /\ UNCHANGED pipeVars

\* Scopes that register other scopes with uses, and the variable operations on them.
NextUse ==
    \/ \E p \in Ids(scopes), c \in Ids(scopes), l \in BOOLEAN :
          Len(scopes) < MaxUseScopes /\ CreateChild(p, c, l)
    \/ \E s \in Ids(scopes), n \in VarNames, v \in Values : Redeclare(s, n, v)
    \/ \E s \in Ids(scopes), o \in Ids(scopes) : Uses(s, o)
    \/ \E s \in Ids(scopes), n \in VarNames, v \in Values : Set(s, n, v)
    \/ \E s \in Ids(scopes), n \in VarNames : Remove(s, n)
    \/ \E s \in Ids(scopes) : Dump(s)

SpecUse == Init /\ [][NextUse]_vars

(***************************************************************************)
(* Streams.  A stream is the sequence of rows it holds, the number of rows *)
(* its reader has taken and the way it was created: "input"/"output" are   *)
(* the streams of the invoked command, "empty" comes from empty_channel(), *)
(* "sink" from spawn_print_thread(), "black_hole" from black_hole().  The  *)
(* producer of an input stream is outside the command: the stream yields   *)
(* Row(1), Row(2), .. and ends when its producer chooses to.               *)
(***************************************************************************)
stream(kind, rows) == [kind |-> kind, rows |-> rows, taken |-> 0, open |-> kind = "input"]

empty_channel(C) == Append(C, stream("empty", <<>>))

spawn_print_thread(C) == Append(C, stream("sink", <<>>))

black_hole(C) == Append(C, stream("black_hole", <<>>))

\* ValueSender::send.  A black hole has no receiver, and the print thread takes every
\* row off its sink as it arrives: neither stream holds a row for a later reader.
send(C, c, row) ==
    IF C[c].kind \in {"black_hole", "sink"} THEN C ELSE [C EXCEPT ![c].rows = Append(@, row)]

\* Rows a stream can carry, and the input streams a command is invoked with.
Row(i) == [t |-> "integer", v |-> i]

\* InputStream::read on a stream that yields a row, and the stream after it.
can_read(C, c) == C[c].open /\ C[c].taken < MaxRows

read(C, c) == [row |-> Row(C[c].taken + 1), chans |-> [C EXCEPT ![c].taken = @ + 1]]

\* The producer closes the stream: every later read fails.
close(C, c) == [C EXCEPT ![c].open = FALSE]

\* The row an emitting body writes (no input stream holds it).
Emitted == Row(0)

\* The arguments and the receiver a closure is invoked with ("" is an unnamed argument).
Calls == {[arguments |-> <<>>, this |-> NoValue],
          [arguments |-> <<[name |-> "", value |-> [t |-> "integer", v |-> 2]],
                           [name |-> "x", value |-> [t |-> "string", v |-> 1]]>>,
           this |-> [t |-> "integer", v |-> 1]]}

\* What the body of a stage does; "fail" is a stage whose invoke returns an error.
StageKinds == {"id", "emit", "break", "continue", "set", "remove", "readonly", "dump",
               "uses", "fail"}

\* The bodies explored for the closure that for invokes once per row.
LoopStageKinds == {"id", "emit", "break", "continue", "fail"}

\* push_arguments_to_env that declares the arguments in the parent of the child scope
RECURSIVE push_arguments_to_parent(_, _, _)
push_arguments_to_parent(S, arguments, e) ==
    IF arguments = <<>> THEN S
    ELSE LET arg == Head(arguments)
             S1 == IF arg.name # ""
                   THEN redeclare(S, S[e].parent_scope, arg.name, arg.value) ELSE S
         IN  push_arguments_to_parent(S1, Tail(arguments), e)

(***************************************************************************)
(* Closure::push_arguments_to_env                                          *)
(***************************************************************************)
RECURSIVE push_arguments_to_env(_, _, _)
push_arguments_to_env(S, arguments, e) ==
    IF arguments = <<>> THEN S
    ELSE LET arg == Head(arguments)
             S1 == IF arg.name # "" THEN redeclare(S, e, arg.name, arg.value) ELSE S
         IN  push_arguments_to_env(S1, Tail(arguments), e)

\* wiring that feeds every later stage the stream the stage before it wrote to
wire_piped(C, n, i, ctx) ==
    LET C1  == IF i < n THEN spawn_print_thread(C) ELSE C
        out == IF i < n THEN Len(C1) ELSE ctx.output
        in  == IF i > 1 THEN Len(C) ELSE ctx.input
    IN  [chans |-> C1, in |-> in, out |-> out]

(***************************************************************************)
(* Closure::invoke, the streams of stage i of n: stage 1 reads the call's  *)
(* input, every later stage an empty_channel(); the last stage writes to   *)
(* the call's output, every earlier one to a spawn_print_thread().         *)
(***************************************************************************)
wire(C, n, i, ctx) ==
    LET C1  == IF i < n THEN spawn_print_thread(C) ELSE C
        out == IF i < n THEN Len(C1) ELSE ctx.output
        C2  == IF i > 1 THEN empty_channel(C1) ELSE C1
        in  == IF i > 1 THEN Len(C2) ELSE ctx.input
    IN  [chans |-> C2, in |-> in, out |-> out]

\* a check that never finds the scope stopped
stop_check_never(S, e) == FALSE

\* Closure::invoke, the check made before the first stage and after every join.
stop_check(S, e) == is_stopped(S, e)

\* JobJoinHandle::join returns once the stage's unit of execution has finished.
joined(st) == st.status = "finished"

\* Closure::invoke that creates the child of the invoking scope, with the captured
\* scope as its caller
EnterSwapped(S, C, cl, ctx) ==
    LET S1 == create_child(S, ctx.env, cl.env, FALSE)
        e  == Len(S1)
        S2 == IF ctx.this # NoValue THEN redeclare(S1, e, "this", ctx.this) ELSE S1
        S3 == push_arguments_to_env(S2, ctx.arguments, e)
    IN  /\ scopes' = S3
        /\ before' = S3
        /\ last' = NoOp
        /\ chans' = C
        /\ closure' = cl
        /\ context' = ctx
        /\ env' = e
        /\ stages' = <<>>
        /\ stopped_in' = 0
        /\ UNCHANGED <<failed, dataVars>>
        /\ IF cl.job_definitions = 0
           THEN result' = "Err" /\ pc' = "returned" /\ idx' = 0
           ELSE IF stop_check(S3, e)
           THEN result' = "Ok" /\ pc' = "returned" /\ idx' = 0
           ELSE result' = "none" /\ pc' = "stage" /\ idx' = 1

(***************************************************************************)
(* Closure::invoke up to the first stage: the child scope, the receiver,   *)
(* the named arguments, the match on the number of stages.                 *)
(***************************************************************************)
Enter(S, C, cl, ctx) ==
    LET S1 == create_child(S, cl.env, ctx.env, FALSE)
        e  == Len(S1)
        S2 == IF ctx.this # NoValue THEN redeclare(S1, e, "this", ctx.this) ELSE S1
        S3 == push_arguments_to_env(S2, ctx.arguments, e)
    IN  /\ scopes' = S3
        /\ before' = S3
        /\ last' = NoOp
        /\ chans' = C
        /\ closure' = cl
        /\ context' = ctx
        /\ env' = e
        /\ stages' = <<>>
        /\ stopped_in' = 0
        /\ UNCHANGED <<failed, dataVars>>
        /\ IF cl.job_definitions = 0
           THEN result' = "Err" /\ pc' = "returned" /\ idx' = 0
           ELSE IF stop_check(S3, e)
           THEN result' = "Ok" /\ pc' = "returned" /\ idx' = 0
           ELSE result' = "none" /\ pc' = "stage" /\ idx' = 1

\* A closure is invoked directly.
CallClosure(n, d, e0, call) ==
    /\ pc = "idle"
    /\ cmd' = "closure"
    /\ floop' = floop
    /\ Enter(scopes, <<stream("input", <<>>), stream("output", <<>>)>>,
             [job_definitions |-> n, env |-> d],
             [input |-> 1, output |-> 2, arguments |-> call.arguments, env |-> e0,
              this |-> call.this])

(***************************************************************************)
(* The for command.                                                        *)
(***************************************************************************)
\* for is invoked: the Empty value is sent, the arguments are taken apart.
CallFor(n, d, e0, args_ok) ==
    /\ pc = "idle"
    /\ cmd' = "for"
    /\ chans' = <<stream("output", <<NoValue>>), stream("input", <<>>)>>
    /\ closure' = [job_definitions |-> n, env |-> d]
    /\ floop' = [NoLoop EXCEPT !.env = e0, !.input = 2, !.output = 1,
                               !.result = IF args_ok THEN "none" ELSE "Err"]
    /\ pc' = IF args_ok THEN "for_read" ELSE "done"
    /\ UNCHANGED <<scopes, before, last, context, env, idx, stages, result, stopped_in,
                   failed, dataVars>>

\* input.read() yields a row: a fresh loop scope, and the body is invoked.
ForRow ==
    /\ pc = "for_read"
    /\ can_read(chans, floop.input)
    /\ LET r    == read(chans, floop.input)
           S1   == create_child(scopes, floop.env, floop.env, TRUE)
           le   == Len(S1)
           C1   == empty_channel(r.chans)
           C2   == black_hole(C1)
       IN  /\ floop' = [floop EXCEPT !.loop_env = le, !.rows = @ + 1]
           /\ cmd' = cmd
           /\ Enter(S1, C2, closure,
                    [input |-> Len(C1), output |-> Len(C2),
                     arguments |-> <<[name |-> "x", value |-> r.row]>>,
                     env |-> le, this |-> NoValue])

\* input.read() fails: the stream is at its end.
ForEnd ==
    /\ pc = "for_read"
    /\ floop' = [floop EXCEPT !.result = "Ok"]
    /\ chans' = close(chans, floop.input)
    /\ pc' = "done"
    /\ UNCHANGED <<scopes, before, last, cmd, closure, context, env, idx, stages, result,
                   stopped_in,
                   failed, dataVars>>

(***************************************************************************)
(* Closure::invoke, one stage: job_definition.invoke(&env, input, output)? *)
(***************************************************************************)
StageInvoke(kind) ==
    /\ pc = "stage"
    /\ LET w == wire(chans, closure.job_definitions, idx, context)
       IN  /\ chans' = w.chans
           /\ IF kind = "fail"
              THEN /\ result' = "Err"
                   /\ pc' = "returned"
                   /\ stages' = stages
                   /\ failed' = Append(failed, [stage |-> idx, row |-> floop.rows])
              ELSE /\ result' = result
                   /\ pc' = "join"
                   /\ failed' = failed
                   /\ stages' = Append(stages, [kind |-> kind, in |-> w.in, out |-> w.out,
                                                status |-> "running", read |-> <<>>])
    /\ UNCHANGED <<scopes, before, last, cmd, closure, context, env, idx, floop, stopped_in,
                   dataVars>>

Running(kind) ==
    /\ pc = "join"
    /\ idx <= Len(stages)
    /\ stages[idx].status = "running"
    /\ stages[idx].kind = kind

Finished == [stages EXCEPT ![idx].status = "finished"]

\* An identity body moves one row from its input to its output.
StageCopy ==
    /\ Running("id")
    /\ can_read(chans, stages[idx].in)
    /\ LET r == read(chans, stages[idx].in)
       IN  /\ chans' = send(r.chans, stages[idx].out, r.row)
           /\ stages' = [stages EXCEPT ![idx].read = Append(@, r.row)]
    /\ UNCHANGED <<scopes, before, last, pc, cmd, closure, context, env, idx, result, floop,
                   stopped_in,
                   failed, dataVars>>

\* An identity body finds its input at its end.
StageEof ==
    /\ Running("id")
    /\ chans' = close(chans, stages[idx].in)
    /\ stages' = Finished
    /\ UNCHANGED <<scopes, before, last, pc, cmd, closure, context, env, idx, result,
                   floop, stopped_in,
                   failed, dataVars>>

\* A body that writes one row of its own.
StageEmit ==
    /\ Running("emit")
    /\ chans' = send(chans, stages[idx].out, Emitted)
    /\ stages' = Finished
    /\ UNCHANGED <<scopes, before, last, pc, cmd, closure, context, env, idx, result, floop,
                   stopped_in,
                   failed, dataVars>>

\* A body that applies one scope operation to the scope it runs in.
StageOp(kind, S, op) ==
    /\ Running(kind)
    /\ scopes' = S
    /\ before' = scopes
    /\ last' = op
    /\ stages' = Finished
    /\ stopped_in' = IF ~is_stopped(scopes, env) /\ is_stopped(S, env) THEN idx ELSE stopped_in
    /\ UNCHANGED <<pc, cmd, closure, context, env, idx, chans, result, floop,
                   failed, dataVars>>

StageBreak ==
    LET r == do_break(scopes, env) IN
    StageOp("break", r.scopes, [NoOp EXCEPT !.op = "break", !.scope = env, !.ok = r.ok])

StageContinue ==
    LET r == do_continue(scopes, env) IN
    StageOp("continue", r.scopes, [NoOp EXCEPT !.op = "continue", !.scope = env, !.ok = r.ok])

StageSet(n, v) ==
    LET r == set(scopes, env, n, v) IN
    StageOp("set", r.scopes, [NoOp EXCEPT !.op = "set", !.scope = env, !.name = n, !.value = v,
                                          !.ok = (r.res = "Ok"), !.res = r.res])

StageRemove(n) ==
    LET r == remove(scopes, env, n) IN
    StageOp("remove", r.scopes, [NoOp EXCEPT !.op = "remove", !.scope = env, !.name = n,
                                             !.value = r.val, !.ok = (r.val # NoValue)])

StageReadonly ==
    StageOp("readonly", readonly(scopes, env), [NoOp EXCEPT !.op = "readonly", !.scope = env])

StageDump ==
    StageOp("dump", scopes, [NoOp EXCEPT !.op = "dump", !.scope = env,
                                         !.map = dump(scopes, env, NoMap)])

StageUses(o) ==
    StageOp("uses", uses(scopes, env, o), [NoOp EXCEPT !.op = "uses", !.scope = env])

\* Closure::invoke without job.join(): the stop check is made and the next stage
\* started while the stage may still be running
StageJoinSkipped ==
    /\ pc = "join"
    /\ IF stop_check(scopes, env)
       THEN result' = "Ok" /\ pc' = "returned" /\ idx' = idx
       ELSE IF idx < closure.job_definitions
       THEN result' = result /\ pc' = "stage" /\ idx' = idx + 1
       ELSE result' = "Ok" /\ pc' = "returned" /\ idx' = idx
    /\ UNCHANGED <<scopes, before, last, cmd, closure, context, env, stages, chans, floop,
                   stopped_in,
                   failed, dataVars>>

(***************************************************************************)
(* Closure::invoke, job.join() and the stop check that follows it.         *)
(***************************************************************************)
StageJoin ==
    /\ pc = "join"
    /\ joined(stages[idx])
    /\ IF stop_check(scopes, env)
       THEN result' = "Ok" /\ pc' = "returned" /\ idx' = idx
       ELSE IF idx < closure.job_definitions
       THEN result' = result /\ pc' = "stage" /\ idx' = idx + 1
       ELSE result' = "Ok" /\ pc' = "returned" /\ idx' = idx
    /\ UNCHANGED <<scopes, before, last, cmd, closure, context, env, stages, chans, floop,
                   stopped_in,
                   failed, dataVars>>

\* Closure::invoke returns to whoever invoked the closure.
ClosureReturn ==
    /\ pc = "returned"
    /\ cmd = "closure"
    /\ pc' = "done"
    /\ UNCHANGED <<scopes, before, last, cmd, closure, context, env, idx, stages, chans,
                   result, floop, stopped_in,
                   failed, dataVars>>

\* for that never looks at env.is_stopped() after the body
ForNextUnstopped ==
    /\ pc = "returned"
    /\ cmd = "for"
    /\ IF result = "Err"
       THEN floop' = [floop EXCEPT !.result = "Err"] /\ pc' = "done"
       ELSE floop' = floop /\ pc' = "for_read"
    /\ UNCHANGED <<scopes, before, last, cmd, closure, context, env, idx, stages, chans,
                   result, stopped_in, failed, dataVars>>

\* for that drops the result of body.invoke(..) (no ? after the call)
ForNextUnchecked ==
    /\ pc = "returned"
    /\ cmd = "for"
    /\ IF is_stopped(scopes, floop.loop_env)
       THEN floop' = [floop EXCEPT !.result = "Ok"] /\ pc' = "done"
       ELSE floop' = floop /\ pc' = "for_read"
    /\ UNCHANGED <<scopes, before, last, cmd, closure, context, env, idx, stages, chans,
                   result, stopped_in, failed, dataVars>>

\* for: body.invoke(..)? has returned; break out of the loop if env.is_stopped().
ForNext ==
    /\ pc = "returned"
    /\ cmd = "for"
    /\ IF result = "Err"
       THEN floop' = [floop EXCEPT !.result = "Err"] /\ pc' = "done"
       ELSE IF is_stopped(scopes, floop.loop_env)
       THEN floop' = [floop EXCEPT !.result = "Ok"] /\ pc' = "done"
       ELSE floop' = floop /\ pc' = "for_read"
    /\ UNCHANGED <<scopes, before, last, cmd, closure, context, env, idx, stages, chans,
                   result, stopped_in,
                   failed, dataVars>>

\* A command (a closure or for) is invoked in a small scope tree, some frame of which
\* may have been stopped already, and runs to its end.
Next ==
    \/ \E p \in Ids(scopes), c \in Ids(scopes), l \in BOOLEAN :
          Len(scopes) < MaxEnvScopes /\ CreateChild(p, c, l)
    \/ \E s \in Ids(scopes) : pc = "idle" /\ Break(s)
    \/ \E s \in Ids(scopes) : pc = "idle" /\ Continue(s)
    \/ \E n \in 0..MaxStages, d \in Ids(scopes), e0 \in Ids(scopes), call \in Calls :
          CallClosure(n, d, e0, call)
    \/ \E n \in 0..MaxStages, d \in Ids(scopes), e0 \in Ids(scopes), ok \in BOOLEAN :
          CallFor(n, d, e0, ok)
    \/ ForRow
    \/ ForEnd
    \/ \E k \in (IF cmd = "for" THEN LoopStageKinds ELSE StageKinds) : StageInvoke(k)
    \/ StageCopy
    \/ StageEof
    \/ StageEmit
    \/ StageBreak
    \/ StageContinue
    \/ \E n \in VarNames, v \in Values : StageSet(n, v)
    \/ \E n \in VarNames : StageRemove(n)
    \/ StageReadonly
    \/ StageDump
    \/ \E o \in {closure.env, context.env} : StageUses(o)
    \/ StageJoin
    \/ ClosureReturn
    \/ ForNext

Spec == Init /\ [][Next]_vars

\* Calls with a repeated argument name and with an argument named this.
BindCalls ==
    Calls \cup
    {[arguments |-> <<[name |-> "x", value |-> [t |-> "integer", v |-> 1]],
                      [name |-> "x", value |-> [t |-> "integer", v |-> 2]]>>,
      this |-> NoValue],
     [arguments |-> <<[name |-> "this", value |-> [t |-> "integer", v |-> 2]]>>,
      this |-> [t |-> "integer", v |-> 1]],
     [arguments |-> <<[name |-> "this", value |-> [t |-> "integer", v |-> 2]]>>,
      this |-> NoValue]}

\* The value the scopes declare x with before the call, and the value the body sets.
Declared == [t |-> "integer", v |-> 1]

Assigned == [t |-> "integer", v |-> 2]

\* A closure is invoked in a scope tree some scopes of which declare x; its body
\* issues break or sets x.
NextCall ==
    \/ \E p \in Ids(scopes), c \in Ids(scopes), l \in BOOLEAN :
          Len(scopes) < MaxCallScopes /\ CreateChild(p, c, l)
    \/ \E s \in Ids(scopes), n \in VarNames : pc = "idle" /\ Redeclare(s, n, Declared)
    \/ \E n \in 0..MaxCallStages, d \in Ids(scopes), e0 \in Ids(scopes), call \in BindCalls :
          CallClosure(n, d, e0, call)
    \/ \E k \in {"break", "set"} : StageInvoke(k)
    \/ StageBreak
    \/ \E n \in VarNames : StageSet(n, Assigned)
    \/ StageJoin
    \/ ClosureReturn

SpecCall == Init /\ [][NextCall]_vars

(***************************************************************************)
(* Records (src/src/lang/struct.rs).  A StructData is its parent (a record *)
(* id or None), its lookup (an OrderedMap<String, usize>: the entries      *)
(* [name, idx] in insertion order, idx counting from 0 as in the source)   *)
(* and its cells (cells[idx + 1] is the cell of index idx).                *)
(***************************************************************************)
FieldNames == {"a", "b"}

FieldValues == {[t |-> "integer", v |-> 1], [t |-> "integer", v |-> 2]}

\* Value::Empty(), the placeholder StructReader::read leaves behind.
EmptyValue == [t |-> "empty", v |-> 0]

\* The lists of at most MaxFields elements of a set.
RECURSIVE SeqsUpTo(_, _)
SeqsUpTo(S, n) ==
    IF n = 0 THEN {<<>>}
    ELSE SeqsUpTo(S, n - 1) \cup {Append(q, x) : q \in {p \in SeqsUpTo(S, n - 1) : Len(p) = n - 1},
                                                x \in S}

\* The Vec<(String, Value)> lists Struct::new is called with (a name may repeat).
Pairs == SeqsUpTo([name : FieldNames, value : FieldValues], MaxFields)

\* OrderedMap: contains_key, get (an index, or -1 for None), insert (the entry of a
\* key that is present is replaced where it stands), keys.
map_contains(m, key) == \E i \in DOMAIN m : m[i].name = key

map_get(m, key) == IF map_contains(m, key) THEN (CHOOSE e \in Range(m) : e.name = key).idx ELSE -1

map_insert(m, key, index) ==
    IF map_contains(m, key)
    THEN [i \in DOMAIN m |-> IF m[i].name = key THEN [name |-> key, idx |-> index] ELSE m[i]]
    ELSE Append(m, [name |-> key, idx |-> index])

map_keys(m) == {m[i].name : i \in DOMAIN m}

(***************************************************************************)
(* Struct::new: for every pair, lookup.insert(key, cells.len()) and        *)
(* cells.push(value).                                                      *)
(***************************************************************************)
RECURSIVE Struct_fill(_, _)
Struct_fill(data, vec) ==
    IF vec = <<>> THEN data
    ELSE Struct_fill([data EXCEPT !.lookup = map_insert(@, Head(vec).name, Len(data.cells)),
                                  !.cells = Append(@, Head(vec).value)],
                     Tail(vec))

Struct_new(vec, parent) == Struct_fill([parent |-> parent, lookup |-> <<>>, cells |-> <<>>], vec)

(***************************************************************************)
(* Struct::from_vec: the values zipped with the columns, no parent.        *)
(***************************************************************************)
zip(values, types) ==
    [i \in 1..(IF Len(values) < Len(types) THEN Len(values) ELSE Len(types)) |->
        [name |-> types[i], value |-> values[i]]]

from_vec(values, types) ==
    Struct_fill([parent |-> None, lookup |-> <<>>, cells |-> <<>>], zip(values, types))

(***************************************************************************)
(* Struct::local_elements (local_signature walks the cells the same way):  *)
(* reverse_lookup takes every (name, idx) of lookup in order, a later name *)
(* of an index replacing an earlier one; every cell is then paired with    *)
(* reverse_lookup[&idx], which panics when no name has that index.         *)
(***************************************************************************)
local_elements(R, r) ==
    LET named(i) == {k \in DOMAIN R[r].lookup : R[r].lookup[k].idx = i - 1}
        name(i)  == R[r].lookup[CHOOSE k \in named(i) : \A j \in named(i) : j <= k].name
    IN  IF \E i \in DOMAIN R[r].cells : named(i) = {}
        THEN [res |-> "panic", rows |-> <<>>]
        ELSE [res |-> "ok",
              rows |-> [i \in DOMAIN R[r].cells |-> [name |-> name(i), value |-> R[r].cells[i]]]]

(***************************************************************************)
(* Struct::get                                                             *)
(***************************************************************************)
RECURSIVE Struct_get(_, _, _)
Struct_get(R, r, name) ==
    IF map_get(R[r].lookup, name) = -1
    THEN IF R[r].parent = None THEN NoValue ELSE Struct_get(R, R[r].parent, name)
    ELSE R[r].cells[map_get(R[r].lookup, name) + 1]

(***************************************************************************)
(* Struct::keys / fill_keys: the names are collected in a HashSet, which   *)
(* is drained into a Vec in some order.                                    *)
(***************************************************************************)
RECURSIVE fill_keys(_, _, _)
fill_keys(R, r, dest) ==
    LET d == dest \cup map_keys(R[r].lookup)
    IN  IF R[r].parent = None THEN d ELSE fill_keys(R, R[r].parent, d)

RECURSIVE drain(_)
drain(S) == IF S = {} THEN <<>> ELSE LET x == CHOOSE y \in S : TRUE IN <<x>> \o drain(S \ {x})

keys(R, r) == drain(fill_keys(R, r, {}))

\* fill_map that lets the value of a parent replace the one found before it
RECURSIVE fill_map_parent_wins(_, _, _)
fill_map_parent_wins(R, r, dest) ==
    LET RECURSIVE local(_, _)
        local(d, i) ==
            IF i > Len(R[r].lookup) THEN d
            ELSE LET e == R[r].lookup[i]
                     v == R[r].cells[e.idx + 1]
                 IN  local(IF \E k \in DOMAIN d : d[k].name = e.name
                           THEN [k \in DOMAIN d |->
                                    IF d[k].name = e.name THEN [name |-> e.name, value |-> v]
                                    ELSE d[k]]
                           ELSE Append(d, [name |-> e.name, value |-> v]),
                           i + 1)
        d1 == local(dest, 1)
    IN  IF R[r].parent = None THEN d1 ELSE fill_map_parent_wins(R, R[r].parent, d1)

(***************************************************************************)
(* Struct::map / fill_map: an OrderedMap<String, Value>, the entries       *)
(* [name, value] in insertion order.                                       *)
(***************************************************************************)
RECURSIVE fill_map(_, _, _)
fill_map(R, r, dest) ==
    LET RECURSIVE local(_, _)
        local(d, i) ==
            IF i > Len(R[r].lookup) THEN d
            ELSE LET e == R[r].lookup[i]
                 IN  local(IF \E k \in DOMAIN d : d[k].name = e.name
                           THEN d
                           ELSE Append(d, [name |-> e.name, value |-> R[r].cells[e.idx + 1]]),
                           i + 1)
        d1 == local(dest, 1)
    IN  IF R[r].parent = None THEN d1 ELSE fill_map(R, R[r].parent, d1)

Struct_map(R, r) == fill_map(R, r, <<>>)

\* set that assigns an inherited field where it is declared
RECURSIVE Struct_set_inherited(_, _, _, _)
Struct_set_inherited(R, r, name, value) ==
    LET idx0 == map_get(R[r].lookup, name) IN
    IF idx0 = -1
    THEN IF R[r].parent # None /\ Struct_get(R, R[r].parent, name) # NoValue
         THEN Struct_set_inherited(R, R[r].parent, name, value)
         ELSE [val |-> NoValue,
               records |-> [R EXCEPT ![r].lookup = map_insert(@, name, Len(R[r].lookup)),
                                     ![r].cells = Append(@, value)]]
    ELSE [val |-> R[r].cells[idx0 + 1], records |-> [R EXCEPT ![r].cells[idx0 + 1] = value]]

(***************************************************************************)
(* Struct::set: returns [val, records]                                     *)
(***************************************************************************)
Struct_set(R, r, name, value) ==
    LET idx0 == map_get(R[r].lookup, name) IN
    IF idx0 = -1
    THEN [val |-> NoValue,
          records |-> [R EXCEPT ![r].lookup = map_insert(@, name, Len(R[r].lookup)),
                                ![r].cells = Append(@, value)]]
    ELSE [val |-> R[r].cells[idx0 + 1], records |-> [R EXCEPT ![r].cells[idx0 + 1] = value]]

(***************************************************************************)
(* impl PartialEq for Struct                                               *)
(***************************************************************************)
eq(R, a, b) ==
    LET us == R[a]
        them == R[b]
    IN  IF Len(us.cells) # Len(them.cells) THEN FALSE
        ELSE IF \E i \in DOMAIN us.cells : us.cells[i] # them.cells[i] THEN FALSE
        ELSE \A i \in DOMAIN us.lookup :
                /\ map_contains(them.lookup, us.lookup[i].name)
                /\ map_get(them.lookup, us.lookup[i].name) = us.lookup[i].idx

(***************************************************************************)
(* impl Hash for Struct: what the record writes to the Hasher, in order:   *)
(* every cell, then the parent (an Option: its discriminant, and for Some  *)
(* what the parent record writes).  The hash is the Hasher's function of   *)
(* this sequence.                                                          *)
(***************************************************************************)
RECURSIVE hash(_, _)
hash(R, r) ==
    R[r].cells \o (IF R[r].parent = None THEN <<"None">>
                   ELSE <<"Some">> \o hash(R, R[r].parent))

\* Everything but the records, the reader and the argument vector.
ctlVars == <<scopes, before, last, pc, cmd, closure, context, env, idx, stages, chans, result,
             floop, stopped_in, failed>>

RecIds == 1..Len(records)

(***************************************************************************)
(* Operations on records                                                   *)
(***************************************************************************)
StructNew(vec, parent) ==
    /\ Len(records) < MaxFamily
    /\ records' = Append(records, Struct_new(vec, parent))
    /\ rbefore' = records'
    /\ rlast' = NoRecOp
    /\ UNCHANGED <<ctlVars, reader, args, args0, alast>>

StructFromVec(values, types) ==
    /\ Len(records) < MaxRecords
    /\ records' = Append(records, from_vec(values, types))
    /\ rbefore' = records'
    /\ rlast' = NoRecOp
    /\ UNCHANGED <<ctlVars, reader, args, args0, alast>>

StructSet(r, name, value) ==
    LET s == Struct_set(records, r, name, value) IN
    /\ records' = s.records
    /\ rbefore' = records
    /\ rlast' = [NoRecOp EXCEPT !.op = "set", !.rec = r, !.name = name, !.value = value,
                                !.ret = s.val]
    /\ UNCHANGED <<ctlVars, reader, args, args0, alast>>

\* get of every name, keys(), map() and local_elements() of one record
StructQuery(r) ==
    /\ rbefore' = records
    /\ rlast' = [NoRecOp EXCEPT !.op = "query", !.rec = r,
                                !.get = [n \in FieldNames |-> Struct_get(records, r, n)],
                                !.keys = keys(records, r),
                                !.map = Struct_map(records, r),
                                !.elements = local_elements(records, r)]
    /\ UNCHANGED <<ctlVars, records, reader, args, args0, alast>>

StructEq(a, b) ==
    /\ rbefore' = records
    /\ rlast' = [NoRecOp EXCEPT !.op = "eq", !.rec = a, !.other = b, !.eq = eq(records, a, b)]
    /\ UNCHANGED <<ctlVars, records, reader, args, args0, alast>>

\* a == b, and the hashes of the two records
StructHash(a, b) ==
    /\ rbefore' = records
    /\ rlast' = [NoRecOp EXCEPT !.op = "hash", !.rec = a, !.other = b, !.eq = eq(records, a, b),
                                !.hashes = <<hash(records, a), hash(records, b)>>]
    /\ UNCHANGED <<ctlVars, records, reader, args, args0, alast>>

NextRec ==
    \/ \E vec \in Pairs, parent \in {None} \cup RecIds :
          Len(records) < MaxRecords /\ StructNew(vec, parent)
    \/ \E values \in SeqsUpTo(FieldValues, MaxFields), types \in SeqsUpTo(FieldNames, MaxFields) :
          StructFromVec(values, types)
    \/ \E r \in RecIds, n \in FieldNames, v \in FieldValues : StructSet(r, n, v)
    \/ \E r \in RecIds : StructQuery(r)
    \/ \E a \in RecIds, b \in RecIds : StructEq(a, b)
    \/ \E a \in RecIds, b \in RecIds : StructHash(a, b)

SpecRec == Init /\ [][NextRec]_vars

\* Records that share parents: construction, set and the queries.
NextInherit ==
    \/ \E vec \in SeqsUpTo([name : FieldNames, value : FieldValues], MaxOwn),
          parent \in {None} \cup RecIds : StructNew(vec, parent)
    \/ \E r \in RecIds, n \in FieldNames, v \in FieldValues : StructSet(r, n, v)
    \/ \E r \in RecIds : StructQuery(r)

SpecInherit == Init /\ [][NextInherit]_vars

(***************************************************************************)
(* Struct::materialize: a new record with the same parent and lookup, its  *)
(* cells mapped through Value::materialize (a stream becomes a table, a    *)
(* concrete value is returned as it is).                                   *)
(***************************************************************************)
Value_materialize(v) == IF v.t = "stream" THEN [t |-> "table", v |-> v.v] ELSE v

materialize(R, r) ==
    [parent |-> R[r].parent,
     lookup |-> R[r].lookup,
     cells  |-> [i \in DOMAIN R[r].cells |-> Value_materialize(R[r].cells[i])]]

(***************************************************************************)
(* Struct::set_parent: the parent is replaced by the one given.            *)
(***************************************************************************)
set_parent(R, r, parent) == [R EXCEPT ![r].parent = parent]

\* The part of a call of get, fill_keys or fill_map that runs before the call recurses
\* into the parent: the same call on the record taken without its parent.
own(R, r) == [R EXCEPT ![r].parent = None]

\* No call of get, keys or map is under way.
Returned == rlast.res # "running"

StructMaterialize(r) ==
    /\ Returned
    /\ Len(records) < MaxRecords
    /\ records' = Append(records, materialize(records, r))
    /\ rbefore' = records
    /\ rlast' = [NoRecOp EXCEPT !.op = "materialize", !.rec = r]
    /\ UNCHANGED <<ctlVars, reader, args, args0, alast>>

SetParent(r, parent) ==
    /\ Returned
    /\ records' = set_parent(records, r, parent)
    /\ rbefore' = records
    /\ rlast' = [NoRecOp EXCEPT !.op = "set_parent", !.rec = r, !.other = parent]
    /\ UNCHANGED <<ctlVars, reader, args, args0, alast>>

(***************************************************************************)
(* A call of get(name), keys() or map() on a record, one record of the     *)
(* chain at a step: the call locks the record, reads its own table, clones *)
(* the parent handle and drops the lock; with a parent (and, for get, the  *)
(* name not found) it calls itself on the parent, without one it returns.  *)
(* seen: the records the call has visited so far.                          *)
(***************************************************************************)
Call(op, r, name) ==
    /\ Returned
    /\ rbefore' = records
    /\ rlast' = [NoRecOp EXCEPT !.op = op, !.rec = r, !.name = name, !.at = r, !.seen = {},
                                !.res = "running"]
    /\ UNCHANGED <<ctlVars, records, reader, args, args0, alast>>

CallStep ==
    /\ rlast.res = "running"
    /\ LET r      == rlast.at
           parent == records[r].parent
           found  == rlast.op = "get" /\ map_get(records[r].lookup, rlast.name) # -1
           dest   == [rlast EXCEPT
                        !.seen = @ \cup {r},
                        !.ret  = IF found THEN Struct_get(own(records, r), r, rlast.name) ELSE @,
                        !.keys = IF rlast.op = "keys"
                                 THEN drain(fill_keys(own(records, r), r, Range(@))) ELSE @,
                        !.map  = IF rlast.op = "map" THEN fill_map(own(records, r), r, @) ELSE @]
       IN  rlast' = IF found \/ parent = None
                    THEN [dest EXCEPT !.res = "returned"]
                    ELSE [dest EXCEPT !.at = parent]
    /\ UNCHANGED <<ctlVars, records, rbefore, reader, args, args0, alast>>

\* Records whose parents are replaced: construction, set, materialize, set_parent and
\* the calls that walk the chain.
NextParent ==
    \/ \E vec \in SeqsUpTo([name : FieldNames, value : FieldValues], MaxOwn),
          parent \in {None} \cup RecIds :
          Returned /\ Len(records) < MaxRecords /\ StructNew(vec, parent)
    \/ \E r \in RecIds, n \in FieldNames, v \in FieldValues : Returned /\ StructSet(r, n, v)
    \/ \E r \in RecIds : StructMaterialize(r)
    \/ \E r \in RecIds, parent \in {None} \cup RecIds : SetParent(r, parent)
    \/ \E op \in {"get", "keys", "map"}, r \in RecIds, n \in FieldNames : Call(op, r, n)
    \/ CallStep

SpecParent == Init /\ [][NextParent]_vars

\* StructReader::new over the record's own fields only
StructReader_new_local(R, s) ==
    [idx |-> 0,
     rows |-> [i \in DOMAIN R[s].lookup |->
                  [name |-> R[s].lookup[i].name, value |-> R[s].cells[R[s].lookup[i].idx + 1]]]]

(***************************************************************************)
(* StructReader::new: idx 0 and the entries of s.map(), drained in order.  *)
(***************************************************************************)
StructReader_new(R, s) == [idx |-> 0, rows |-> Struct_map(R, s)]

(***************************************************************************)
(* StructReader::read: returns [res, row, idx, rows]; the row read is      *)
(* replaced by ("", Value::Empty()).                                       *)
(***************************************************************************)
StructReader_read(rd) ==
    IF rd.idx >= Len(rd.rows)
    THEN [res |-> "EOF", row |-> <<>>, idx |-> rd.idx, rows |-> rd.rows]
    ELSE [res |-> "Ok",
          row |-> <<[t |-> "string", v |-> rd.rows[rd.idx + 1].name], rd.rows[rd.idx + 1].value>>,
          idx |-> rd.idx + 1,
          rows |-> [rd.rows EXCEPT ![rd.idx + 1] = [name |-> "", value |-> EmptyValue]]]

(***************************************************************************)
(* StructReader::read_timeout: read, every error turned into Disconnected. *)
(***************************************************************************)
read_timeout(rd) ==
    LET r == StructReader_read(rd)
    IN  IF r.res = "Ok" THEN r ELSE [r EXCEPT !.res = "Disconnected"]

\* A reader is created over a record; what get finds for every name at that moment
\* is kept in reader.at, the rows read so far in reader.got.
ReaderNew(s) ==
    /\ reader.of = None
    /\ reader' = [idx  |-> StructReader_new(records, s).idx,
                  rows |-> StructReader_new(records, s).rows,
                  of   |-> s,
                  at   |-> [n \in FieldNames |-> Struct_get(records, s, n)],
                  got  |-> <<>>]
    /\ rbefore' = records
    /\ rlast' = NoRecOp
    /\ UNCHANGED <<ctlVars, records, args, args0, alast>>

ReaderStep(op, r) ==
    /\ reader.of # None
    /\ reader' = [reader EXCEPT !.idx = r.idx, !.rows = r.rows,
                                !.got = IF r.res = "Ok" THEN Append(@, r.row) ELSE @]
    /\ rbefore' = records
    /\ rlast' = [NoRecOp EXCEPT !.op = op, !.res = r.res, !.row = r.row]
    /\ UNCHANGED <<ctlVars, records, args, args0, alast>>

ReaderRead == ReaderStep("read", StructReader_read(reader))

ReaderReadTimeout == ReaderStep("read_timeout", read_timeout(reader))

\* Records, one reader over one of them, and sets before and after its creation.
NextReader ==
    \/ \E vec \in Pairs, parent \in {None} \cup RecIds :
          Len(records) < MaxRecords /\ StructNew(vec, parent)
    \/ \E r \in RecIds, n \in FieldNames, v \in FieldValues : StructSet(r, n, v)
    \/ \E s \in RecIds : ReaderNew(s)
    \/ ReaderRead
    \/ ReaderReadTimeout

SpecReader == Init /\ [][NextReader]_vars

(***************************************************************************)
(* impl ArgumentVector for Vec<Argument> (src/src/lang/command.rs).  An    *)
(* Argument is [name, value] ("" for an unnamed one); indices count from 0 *)
(* as in the source, args[i + 1] is the argument of index i.               *)
(***************************************************************************)
\* One value of every variant an accessor asks for, and Value::Bool(false).
ArgValues == {[t |-> "string", v |-> 1], [t |-> "integer", v |-> 1], [t |-> "field", v |-> 1],
              [t |-> "command", v |-> 1], [t |-> "type", v |-> 1], [t |-> "bool", v |-> 0]}

\* Argument::unnamed(Value::Bool(false)), what an accessor leaves in the vector.
Placeholder == [name |-> "", value |-> [t |-> "bool", v |-> 0]]

\* string, integer, field, command and type ask for their variant; value takes any.
Accessors == {"string", "integer", "field", "command", "type", "value"}

(***************************************************************************)
(* check_len: returns Ok or the argument error                             *)
(***************************************************************************)
check_len(A, len) == IF Len(A) = len THEN "Ok" ELSE "ArgumentError"

\* an accessor that takes the argument out of the vector only when its variant matches
accessor_keeping(kind, A, i) ==
    IF i < Len(A)
    THEN IF kind = "value" \/ A[i + 1].value.t = kind
         THEN [res |-> "Ok", ret |-> A[i + 1].value, args |-> [A EXCEPT ![i + 1] = Placeholder]]
         ELSE [res |-> "InvalidValue", ret |-> NoValue, args |-> A]
    ELSE [res |-> "IndexOutOfBounds", ret |-> NoValue, args |-> A]

(***************************************************************************)
(* string / integer / field / command / type / value: returns              *)
(* [res, ret, args]                                                        *)
(***************************************************************************)
accessor(kind, A, i) ==
    IF i < Len(A)
    THEN LET taken == A[i + 1].value
             A1    == [A EXCEPT ![i + 1] = Placeholder]
         IN  IF kind = "value" \/ taken.t = kind
             THEN [res |-> "Ok", ret |-> taken, args |-> A1]
             ELSE [res |-> "InvalidValue", ret |-> NoValue, args |-> A1]
    ELSE [res |-> "IndexOutOfBounds", ret |-> NoValue, args |-> A]

\* A command is invoked with a vector of arguments.
ArgVector(v) ==
    /\ args0 = <<>>
    /\ alast = NoArgOp
    /\ v # <<>>
    /\ args' = v
    /\ args0' = v
    /\ alast' = alast
    /\ UNCHANGED <<ctlVars, records, rbefore, rlast, reader>>

ArgCheckLen(len) ==
    /\ alast' = [alast EXCEPT !.op = "check_len", !.len = len, !.res = check_len(args, len),
                              !.ret = NoValue, !.before = args, !.idx = 0, !.again = FALSE]
    /\ UNCHANGED <<ctlVars, records, rbefore, rlast, reader, args, args0>>

ArgAccessor(kind, i) ==
    LET r == accessor(kind, args, i) IN
    /\ args' = r.args
    /\ alast' = [op |-> kind, idx |-> i, len |-> 0, res |-> r.res, ret |-> r.ret,
                 before |-> args,
                 taken |-> IF i < Len(args) THEN alast.taken \cup {i} ELSE alast.taken,
                 again |-> i \in alast.taken]
    /\ UNCHANGED <<ctlVars, records, rbefore, rlast, reader, args0>>

NextArg ==
    \/ \E v \in SeqsUpTo([name : {"", "x"}, value : ArgValues], MaxArgs) : ArgVector(v)
    \/ \E len \in 0..(MaxArgs + 1) : ArgCheckLen(len)
    \/ \E kind \in Accessors, i \in 0..MaxArgs : ArgAccessor(kind, i)

SpecArg == Init /\ [][NextArg]_vars

(***************************************************************************)
(* Vocabulary of the properties                                            *)
(***************************************************************************)
\* The dynamic-caller chain of s: s, its calling scope, that scope's calling scope, ..
RECURSIVE DynChain(_, _)
DynChain(S, s) ==
    IF S[s].calling_scope = None THEN <<s>> ELSE <<s>> \o DynChain(S, S[s].calling_scope)

\* The lexical chain of s: s, its parent scope, that scope's parent scope, ..
RECURSIVE LexChain(_, _)
LexChain(S, s) ==
    IF S[s].parent_scope = None THEN <<s>> ELSE <<s>> \o LexChain(S, S[s].parent_scope)

\* The positions of the loop frames on a chain, and the nearest of them.
LoopAt(S, chain) == {k \in DOMAIN chain : S[chain[k]].is_loop}

Nearest(ks) == CHOOSE k \in ks : \A j \in ks : k <= j

\* The scopes whose is_stopped flag differs between two scope trees of the same scopes.
FlagsChanged(S, T) == {t \in Ids(S) : S[t].is_stopped # T[t].is_stopped}

\* s with its is_stopped flag left out: everything an operation on flags must keep.
Unflagged(sc) == [sc EXCEPT !.is_stopped = FALSE]

\* From a non-loop origin the chain reaches its nearest loop frame through frames
\* none of which is readonly (the loop frame included).
ReachesLoop(S, o) ==
    LET chain == DynChain(S, o) IN
    /\ ~S[o].is_loop
    /\ LoopAt(S, chain) # {}
    /\ \A j \in 1..Nearest(LoopAt(S, chain)) : ~S[chain[j]].is_readonly

\* The frames from the origin up to the nearest loop frame, with it or without it.
UpToLoop(S, o) ==
    LET chain == DynChain(S, o) IN {chain[j] : j \in 1..Nearest(LoopAt(S, chain))}

BelowLoop(S, o) ==
    LET chain == DynChain(S, o) IN {chain[j] : j \in 1..(Nearest(LoopAt(S, chain)) - 1)}

(***************************************************************************)
(* C1: break issued at a non-loop origin whose caller chain reaches its    *)
(* nearest loop frame L through non-readonly frames returns true; after it *)
(* is_stopped is true on every frame from the origin up to and including L *)
(* and every other scope (further out on the chain, or off it) has the     *)
(* flag, and everything else, it had before.                               *)
(***************************************************************************)
C1_BreakStopsUpToLoop ==
    (last.op = "break" /\ ReachesLoop(before, last.scope)) =>
        /\ last.ok
        /\ \A t \in Ids(before) :
              /\ Unflagged(scopes[t]) = Unflagged(before[t])
              /\ scopes[t].is_stopped =
                    IF t \in UpToLoop(before, last.scope) THEN TRUE ELSE before[t].is_stopped

\* a break through two non-loop frames to a loop frame that has a caller of its own,
\* which stays unstopped
C1_Witness ==
    /\ last.op = "break"
    /\ ReachesLoop(before, last.scope)
    /\ Cardinality(UpToLoop(before, last.scope)) >= 3
    /\ \E t \in Range(DynChain(before, last.scope)) :
          t \notin UpToLoop(before, last.scope) /\ ~scopes[t].is_stopped
    /\ \A t \in UpToLoop(before, last.scope) : ~before[t].is_stopped /\ scopes[t].is_stopped

(***************************************************************************)
(* C2: break or continue issued at a scope with no loop frame on its       *)
(* caller chain returns false and leaves every is_stopped flag as it was.  *)
(***************************************************************************)
C2_NoLoopNoEffect ==
    (last.op \in {"break", "continue"} /\ LoopAt(before, DynChain(before, last.scope)) = {}) =>
        /\ ~last.ok
        /\ FlagsChanged(before, scopes) = {}

\* a break two frames deep in a tree that has a loop frame elsewhere
C2_Witness ==
    /\ last.op = "break"
    /\ LoopAt(before, DynChain(before, last.scope)) = {}
    /\ Len(DynChain(before, last.scope)) >= 3
    /\ \E t \in Ids(before) : before[t].is_loop
    /\ ~last.ok

(***************************************************************************)
(* C3 as stated: continue at a non-loop origin whose caller chain reaches  *)
(* its nearest loop frame L through non-readonly frames returns true, sets *)
(* is_stopped on the frames below L and leaves L's flag alone; continue    *)
(* issued on a loop frame returns true and changes no flag.                *)
(***************************************************************************)
C3_ContinueThroughFrames ==
    (last.op = "continue" /\ ReachesLoop(before, last.scope)) =>
        /\ last.ok
        /\ \A t \in Ids(before) :
              scopes[t].is_stopped =
                 IF t \in BelowLoop(before, last.scope) THEN TRUE ELSE before[t].is_stopped

C3_Original ==
    /\ C3_ContinueThroughFrames
    /\ (last.op = "continue" /\ before[last.scope].is_loop) =>
          (last.ok /\ FlagsChanged(before, scopes) = {})

(***************************************************************************)
(* C3 amended: as stated, but continue issued on a loop frame returns true *)
(* only when that frame is not readonly (on a readonly loop frame it       *)
(* returns false); in both cases it changes no flag.                       *)
(***************************************************************************)
C3_ContinueSparesLoop ==
    /\ C3_ContinueThroughFrames
    /\ (last.op = "continue" /\ before[last.scope].is_loop) =>
          /\ last.ok = ~before[last.scope].is_readonly
          /\ FlagsChanged(before, scopes) = {}

\* a continue through two non-loop frames to a loop frame, which stays unstopped
C3_Witness ==
    /\ last.op = "continue"
    /\ ReachesLoop(before, last.scope)
    /\ Cardinality(BelowLoop(before, last.scope)) >= 2
    /\ \A t \in BelowLoop(before, last.scope) : ~before[t].is_stopped /\ scopes[t].is_stopped
    /\ \A t \in UpToLoop(before, last.scope) \ BelowLoop(before, last.scope) :
          ~scopes[t].is_stopped
    /\ last.ok

\* The positions on the lexical chain of s of the scopes that declare name, and the
\* nearest scope that does.
DeclaredAt(S, s, name) ==
    LET chain == LexChain(S, s) IN {k \in DOMAIN chain : contains_key(S, chain[k], name)}

Declarer(S, s, name) == LexChain(S, s)[Nearest(DeclaredAt(S, s, name))]

C5_Original ==
    (last.op = "set") =>
        IF DeclaredAt(before, last.scope, last.name) # {}
        THEN scopes = [before EXCEPT
                          ![Declarer(before, last.scope, last.name)].data[last.name] = last.value]
        ELSE last.res = "UnknownVariable" /\ scopes = before

(***************************************************************************)
(* C5 amended: set resolves the name to the nearest scope of the lexical   *)
(* chain that declares it; it updates that binding, and nothing else, when *)
(* that scope is not readonly and the stored value has the runtime type of *)
(* the new one, and otherwise fails (not with unknown-variable) and        *)
(* changes nothing; if no scope of the lexical chain declares the name it  *)
(* fails with an unknown-variable error and changes nothing, whatever the  *)
(* caller chain declares.                                                  *)
(***************************************************************************)
C5_SetResolvesLexically ==
    (last.op = "set") =>
        IF DeclaredAt(before, last.scope, last.name) # {}
        THEN LET d == Declarer(before, last.scope, last.name) IN
             IF ~before[d].is_readonly
                   /\ value_type(before[d].data[last.name]) = value_type(last.value)
             THEN /\ last.res = "Ok"
                  /\ scopes = [before EXCEPT ![d].data[last.name] = last.value]
             ELSE /\ last.res \in {"ReadOnly", "TypeMismatch"}
                  /\ scopes = before
        ELSE last.res = "UnknownVariable" /\ scopes = before

\* a successful set issued below the nearest declaring scope, which is not on the
\* caller chain, while a scope further up the lexical chain declares the name too
C5_Witness ==
    /\ last.op = "set"
    /\ last.res = "Ok"
    /\ Cardinality(DeclaredAt(before, last.scope, last.name)) >= 2
    /\ Nearest(DeclaredAt(before, last.scope, last.name)) >= 2
    /\ Declarer(before, last.scope, last.name) \notin Range(DynChain(before, last.scope))
    /\ scopes # before

(***************************************************************************)
(* C6 as stated: set with a value whose runtime type differs from the type *)
(* stored in the declaring scope fails with a type-mismatch error and      *)
(* changes nothing; no set changes the runtime type bound to a name.       *)
(***************************************************************************)
TypesKept ==
    \A t \in Ids(before), n \in Names :
        value_type(scopes[t].data[n]) = value_type(before[t].data[n])

Mistyped ==
    /\ last.op = "set"
    /\ DeclaredAt(before, last.scope, last.name) # {}
    /\ value_type(before[Declarer(before, last.scope, last.name)].data[last.name])
          # value_type(last.value)

C6_Original ==
    /\ Mistyped => (last.res = "TypeMismatch" /\ scopes = before)
    /\ (last.op = "set") => TypesKept

(***************************************************************************)
(* C6 amended: such a set fails and changes nothing; the error is the      *)
(* type-mismatch error when the declaring scope is not readonly and the    *)
(* read-only error when it is; no set changes the runtime type bound to a  *)
(* name.                                                                   *)
(***************************************************************************)
C6_TypeMismatchRejected ==
    /\ Mistyped =>
          /\ last.res = IF before[Declarer(before, last.scope, last.name)].is_readonly
                        THEN "ReadOnly" ELSE "TypeMismatch"
          /\ scopes = before
    /\ (last.op = "set") => TypesKept

\* a mistyped set resolved to a lexical ancestor and rejected with the type-mismatch error
C6_Witness ==
    /\ Mistyped
    /\ Declarer(before, last.scope, last.name) # last.scope
    /\ last.res = "TypeMismatch"
    /\ scopes = before

(***************************************************************************)
(* C7: is_stopped is monotone: no step (a scope operation, a step of a     *)
(* closure invocation or of for) makes a true flag false or drops a scope; *)
(* the frame for gives a row is a scope that did not exist before.         *)
(***************************************************************************)
C7_StoppedMonotone ==
    [][/\ \A s \in Ids(scopes) : s \in Ids(scopes') /\ (scopes[s].is_stopped => scopes'[s].is_stopped)
       /\ floop'.loop_env # floop.loop_env =>
             (floop'.loop_env \notin Ids(scopes) /\ ~scopes'[floop'.loop_env].is_stopped)]_vars

\* for is at its second row: the first row's frames are stopped, the new frame is not
C7_Witness ==
    /\ cmd = "for"
    /\ floop.rows >= 2
    /\ \E s \in Ids(scopes) : s < floop.loop_env /\ scopes[s].is_stopped /\ ~scopes[s].is_loop
    /\ \E s \in Ids(scopes) : scopes[s].is_stopped /\ scopes[s].is_loop
    /\ ~scopes[floop.loop_env].is_stopped
    /\ last.op = "continue" /\ last.ok

(***************************************************************************)
(* C8: if the child scope of a closure invocation becomes stopped while    *)
(* stage i is running, no later stage is started and the invocation        *)
(* returns success.                                                        *)
(***************************************************************************)
C8_StopEndsPipeline ==
    (env # None /\ is_stopped(scopes, env)) =>
        /\ stopped_in \in 1..closure.job_definitions
        /\ Len(stages) = stopped_in
        /\ pc # "stage"
        /\ pc \in {"returned", "done"} => result = "Ok"

\* stage 2 of a three-stage closure stopped the scope: the invocation returned Ok
\* with two stages started
C8_Witness ==
    /\ closure.job_definitions = 3
    /\ stopped_in = 2
    /\ is_stopped(scopes, env)
    /\ Len(stages) = 2
    /\ pc = "done"
    /\ result = "Ok"

(***************************************************************************)
(* C9: the stages of one invocation run one after another: a stage is      *)
(* started only when every earlier one has finished, so at most one is     *)
(* running, and invoke returns only when every stage it started has        *)
(* finished.                                                               *)
(***************************************************************************)
C9_StagesInSequence ==
    /\ \A i \in DOMAIN stages : i < Len(stages) => stages[i].status = "finished"
    /\ Cardinality({i \in DOMAIN stages : stages[i].status = "running"}) <= 1
    /\ pc # "join" => \A i \in DOMAIN stages : stages[i].status = "finished"
    /\ \A i \in DOMAIN stages : i <= idx

\* the third stage is running, the two before it have finished
C9_Witness ==
    /\ Len(stages) = 3
    /\ stages[3].status = "running"
    /\ stages[1].status = "finished"
    /\ stages[2].status = "finished"
    /\ pc = "join"

(***************************************************************************)
(* C10: the streams of the stages.  With one stage, the stage reads the    *)
(* call's input and writes the call's output (an identity stage puts out   *)
(* exactly the rows the input yielded, in order).  With more, only stage 1 *)
(* reads the call's input, every later stage reads an empty, closed stream *)
(* of its own, every stage but the last writes to a sink of its own, only  *)
(* the last writes to the call's output: no stage reads what an earlier    *)
(* stage wrote.                                                            *)
(***************************************************************************)
C10_StageStreams ==
    LET n == closure.job_definitions IN
    /\ (n > 1 /\ context.output # 0 /\ chans[context.output].kind = "output"
            /\ chans[context.output].rows # <<>>) =>
          /\ Len(stages) = n
          /\ stages[n].kind = "emit"
          /\ chans[context.output].rows = <<Emitted>>
    /\ \A i \in DOMAIN stages :
        /\ i = 1 => stages[i].in = context.input
        /\ i > 1 => /\ chans[stages[i].in].kind = "empty"
                    /\ chans[stages[i].in].rows = <<>>
                    /\ ~chans[stages[i].in].open
                    /\ stages[i].read = <<>>
        /\ i < n => chans[stages[i].out].kind = "sink"
        /\ i = n => stages[i].out = context.output
        /\ \A j \in DOMAIN stages :
              j # i => /\ stages[j].out # stages[i].out
                       /\ stages[j].in # stages[i].in
                       /\ stages[j].in # stages[i].out
        /\ (n = 1 /\ stages[i].kind = "id" /\ chans[context.output].kind = "output") =>
              /\ chans[context.output].rows = stages[i].read
              /\ stages[i].read = [k \in 1..chans[context.input].taken |-> Row(k)]

\* a three-stage closure whose first stage read two rows and whose last stage, an
\* identity, found its input empty: nothing reached the call's output
C10_Witness ==
    /\ closure.job_definitions = 3
    /\ Len(stages) = 3
    /\ stages[1].kind = "id"
    /\ stages[1].read = <<Row(1), Row(2)>>
    /\ stages[3].kind = "id"
    /\ stages[3].status = "finished"
    /\ stages[3].read = <<>>
    /\ chans[context.output].kind = "output"
    /\ chans[context.output].rows = <<>>

(***************************************************************************)
(* C11: once the invoke of a stage has returned an error, the closure      *)
(* invocation returns that error, no later stage is started and the stage  *)
(* is not invoked again; when the closure is the body of for, for returns  *)
(* the error and reads no further row.                                     *)
(***************************************************************************)
C11_FailurePropagates ==
    failed # <<>> =>
        /\ Len(failed) = 1
        /\ idx = failed[1].stage
        /\ Len(stages) = failed[1].stage - 1
        /\ floop.rows = failed[1].row
        /\ pc \in {"returned", "done"}
        /\ result = "Err"
        /\ (cmd = "for" /\ pc = "done") => floop.result = "Err"

\* for has returned the error of the second stage of its body at the first row, with
\* a third stage never started and a further row waiting in the input
C11_Witness ==
    /\ cmd = "for"
    /\ pc = "done"
    /\ closure.job_definitions = 3
    /\ failed = <<[stage |-> 2, row |-> 1]>>
    /\ Len(stages) = 1
    /\ can_read(chans, floop.input)
    /\ floop.result = "Err"

\* The invocation of a closure: the step from idle into Closure::invoke.
Invoked == pc = "idle" /\ pc' # "idle" /\ cmd' = "closure"

\* Some argument of the call carries the name.
NamedArg(ctx, n) == \E i \in DOMAIN ctx.arguments : ctx.arguments[i].name = n

\* The value of the last argument of the call that carries the name.
LastArg(ctx, n) ==
    LET is == {i \in DOMAIN ctx.arguments : ctx.arguments[i].name = n}
    IN  ctx.arguments[CHOOSE i \in is : \A j \in is : j <= i].value

C13_Original ==
    [][Invoked =>
        /\ env' \notin Ids(scopes)
        /\ \A s \in Ids(scopes) : scopes'[s] = scopes[s]
        /\ \A n \in Names \ {"this"} :
              contains_key(scopes', env', n) <=> NamedArg(context', n)
        /\ \A i \in DOMAIN context'.arguments :
              context'.arguments[i].name # "" =>
                  scopes'[env'].data[context'.arguments[i].name] = context'.arguments[i].value
        /\ contains_key(scopes', env', "this") <=> context'.this # NoValue
        /\ context'.this # NoValue => scopes'[env'].data["this"] = context'.this]_vars

(***************************************************************************)
(* C13 amended: the invocation binds, in the fresh child scope, exactly    *)
(* the names of the named arguments, each name to the value of the last    *)
(* argument that carries it, and this to the receiver when a receiver is   *)
(* supplied and no argument is named this (an argument named this is bound *)
(* like any other, with or without a receiver); unnamed arguments bind     *)
(* nothing; no scope that existed before the call changes.                 *)
(***************************************************************************)
C13_ArgumentsBound ==
    [][Invoked =>
        /\ env' \notin Ids(scopes)
        /\ \A s \in Ids(scopes) : scopes'[s] = scopes[s]
        /\ \A n \in Names :
              contains_key(scopes', env', n) <=>
                  (NamedArg(context', n) \/ (n = "this" /\ context'.this # NoValue))
        /\ \A n \in Names :
              NamedArg(context', n) => scopes'[env'].data[n] = LastArg(context', n)
        /\ (context'.this # NoValue /\ ~NamedArg(context', "this")) =>
              scopes'[env'].data["this"] = context'.this]_vars

\* just after the binding of a call with a receiver, an unnamed and a named argument:
\* the child declares x and this, the defining scope keeps its own x
C13_Witness ==
    /\ cmd = "closure"
    /\ pc = "stage"
    /\ stages = <<>>
    /\ context.this # NoValue
    /\ \E i \in DOMAIN context.arguments : context.arguments[i].name = ""
    /\ NamedArg(context, "x")
    /\ scopes[env].data["x"] = LastArg(context, "x")
    /\ scopes[env].data["this"] = context.this
    /\ contains_key(scopes, closure.env, "x")
    /\ scopes[closure.env].data["x"] # scopes[env].data["x"]
    /\ closure.env # context.env

\* The delegation chain of a record: the record, its parent, that record's parent, ..
RECURSIVE ParentChain(_, _)
ParentChain(R, r) ==
    IF R[r].parent = None THEN <<r>> ELSE <<r>> \o ParentChain(R, R[r].parent)

\* The record declares the name itself, and the cell its lookup gives the name.
Declares(R, r, n) == \E i \in DOMAIN R[r].lookup : R[r].lookup[i].name = n

Local(R, r, n) ==
    R[r].cells[(CHOOSE e \in Range(R[r].lookup) : e.name = n).idx + 1]

\* The value of the nearest record of the chain that declares the name (none: NoValue).
Inherited(R, r, n) ==
    LET chain == ParentChain(R, r)
        ks    == {k \in DOMAIN chain : Declares(R, chain[k], n)}
    IN  IF ks = {} THEN NoValue ELSE Local(R, chain[Nearest(ks)], n)

(***************************************************************************)
(* C14: get on a record returns the record's own value of the name if it   *)
(* declares it and otherwise what get on its parent returns (the nearest   *)
(* definition wins); set on a record changes that record's own table only: *)
(* every other record (its parent, the other children of that parent) is   *)
(* as it was, and the record keeps its parent.                             *)
(***************************************************************************)
C14_DelegationAndShadowing ==
    /\ rlast.op = "query" =>
          \A n \in FieldNames : rlast.get[n] = Inherited(records, rlast.rec, n)
    /\ rlast.op = "set" =>
          /\ \A r \in RecIds : r # rlast.rec => records[r] = rbefore[r]
          /\ records[rlast.rec].parent = rbefore[rlast.rec].parent
          /\ \A r \in RecIds, n \in FieldNames :
                (r # rlast.rec /\ rlast.rec \notin Range(ParentChain(records, r))) =>
                    Inherited(records, r, n) = Inherited(rbefore, r, n)

\* two children share a parent that declares a name neither of them declared; one of
\* them was set that name: it shadows the parent's value, which the other still gets
C14_Witness ==
    /\ rlast.op = "set"
    /\ ~Declares(rbefore, rlast.rec, rlast.name)
    /\ rbefore[rlast.rec].parent # None
    /\ Declares(records, records[rlast.rec].parent, rlast.name)
    /\ Inherited(records, rlast.rec, rlast.name) = rlast.value
    /\ Inherited(records, records[rlast.rec].parent, rlast.name) # rlast.value
    /\ \E r \in RecIds :
          /\ r # rlast.rec
          /\ records[r].parent = records[rlast.rec].parent
          /\ ~Declares(records, r, rlast.name)
          /\ Inherited(records, r, rlast.name) # rlast.value

\* Every cell of the record but the one the lookup gives the name is as it was.
OtherCellsKept(R, Q, r, n) ==
    \A i \in DOMAIN Q[r].cells :
        (~Declares(Q, r, n) \/ i # (CHOOSE e \in Range(Q[r].lookup) : e.name = n).idx + 1) =>
            (i \in DOMAIN R[r].cells /\ R[r].cells[i] = Q[r].cells[i])

(***************************************************************************)
(* C15: set of a name the record does not declare appends one field (one   *)
(* lookup entry, one cell) and returns none; set of a name it declares     *)
(* returns the value stored before and keeps the number of fields, the     *)
(* lookup and every other cell; in both cases get of the name then returns *)
(* the value set.                                                          *)
(***************************************************************************)
C15_SetThenGet ==
    rlast.op = "set" =>
        LET r == rlast.rec
            n == rlast.name
        IN  /\ IF Declares(rbefore, r, n)
               THEN /\ rlast.ret = Local(rbefore, r, n)
                    /\ Len(records[r].cells) = Len(rbefore[r].cells)
                    /\ records[r].lookup = rbefore[r].lookup
               ELSE /\ rlast.ret = NoValue
                    /\ Len(records[r].cells) = Len(rbefore[r].cells) + 1
                    /\ Len(records[r].lookup) = Len(rbefore[r].lookup) + 1
                    /\ SubSeq(records[r].lookup, 1, Len(rbefore[r].lookup)) = rbefore[r].lookup
            /\ OtherCellsKept(records, rbefore, r, n)
            /\ Struct_get(records, r, n) = rlast.value

(***************************************************************************)
(* C16: two records are equal exactly when their cells have the same       *)
(* length and are pairwise equal and their lookups give every name the     *)
(* same index (a name of either record is a name of both); the parents are *)
(* not compared; a == b and b == a agree.                                  *)
(***************************************************************************)
SameLookup(R, a, b) ==
    \A n \in FieldNames :
        /\ Declares(R, a, n) <=> Declares(R, b, n)
        /\ Declares(R, a, n) => map_get(R[a].lookup, n) = map_get(R[b].lookup, n)

C16_EqLocalOnly ==
    rlast.op = "eq" =>
        /\ rlast.eq = (/\ records[rlast.rec].cells = records[rlast.other].cells
                       /\ SameLookup(records, rlast.rec, rlast.other))
        /\ rlast.eq = eq(records, rlast.other, rlast.rec)

(***************************************************************************)
(* C19: for every record the names of map(), the names keys() returns and  *)
(* the names get() finds a value for are the same set; keys() and map()    *)
(* hold no name twice; map() gives every name the value get() returns for  *)
(* it, the nearest definition on the delegation chain.                     *)
(***************************************************************************)
C19_ViewsAgree ==
    rlast.op = "query" =>
        LET found == {n \in FieldNames : rlast.get[n] # NoValue} IN
        /\ Range(rlast.keys) = found
        /\ {rlast.map[i].name : i \in DOMAIN rlast.map} = found
        /\ Cardinality(Range(rlast.keys)) = Len(rlast.keys)
        /\ \A i \in DOMAIN rlast.map, j \in DOMAIN rlast.map :
              rlast.map[i].name = rlast.map[j].name => i = j
        /\ \A i \in DOMAIN rlast.map :
              /\ rlast.map[i].value = rlast.get[rlast.map[i].name]
              /\ rlast.map[i].value = Inherited(records, rlast.rec, rlast.map[i].name)

\* a record that shadows one field of its parent and inherits another
C19_Witness ==
    /\ rlast.op = "query"
    /\ records[rlast.rec].parent # None
    /\ Len(rlast.map) = 2
    /\ \E n \in FieldNames, m \in FieldNames :
          /\ Declares(records, rlast.rec, n)
          /\ Declares(records, records[rlast.rec].parent, n)
          /\ Local(records, rlast.rec, n) # Local(records, records[rlast.rec].parent, n)
          /\ ~Declares(records, rlast.rec, m)
          /\ Declares(records, records[rlast.rec].parent, m)
          /\ rlast.get[n] = Local(records, rlast.rec, n)

\* The names get found a value for when the reader was created, and the names of
\* the rows read so far.
VisibleAt == {n \in FieldNames : reader.at[n] # NoValue}

GotNames == {reader.got[i][1].v : i \in DOMAIN reader.got}

(***************************************************************************)
(* C17: the rows a record-stream yields are (name, value) rows of names    *)
(* visible through the delegation chain when the stream was created, with  *)
(* the value get returned for the name at that moment, no name twice; a    *)
(* read fails only when every visible name has been yielded, and then      *)
(* every read fails (read with end-of-stream, a timed read with            *)
(* disconnected); set operations on the records after the creation change  *)
(* none of this.                                                           *)
(***************************************************************************)
C17_ReaderYieldsVisible ==
    reader.of # None =>
        /\ \A i \in DOMAIN reader.got :
              /\ reader.got[i][1].t = "string"
              /\ reader.got[i][1].v \in VisibleAt
              /\ reader.got[i][2] = reader.at[reader.got[i][1].v]
        /\ \A i \in DOMAIN reader.got, j \in DOMAIN reader.got :
              reader.got[i][1] = reader.got[j][1] => i = j
        /\ rlast.op \in {"read", "read_timeout"} =>
              /\ rlast.res = "Ok" => (reader.got # <<>> /\ rlast.row = reader.got[Len(reader.got)])
              /\ rlast.res # "Ok" =>
                    /\ GotNames = VisibleAt
                    /\ rlast.res = IF rlast.op = "read" THEN "EOF" ELSE "Disconnected"
              /\ GotNames = VisibleAt => (rlast.res # "Ok" \/ Len(reader.got) = reader.idx)
        /\ Len(reader.got) = reader.idx
        /\ Len(reader.got) <= Cardinality(VisibleAt)

\* a stream over a record that shadows a field of its parent and inherits another has
\* yielded its two rows and then failed, after a set gave the record another value
C17_Witness ==
    /\ reader.of # None
    /\ records[reader.of].parent # None
    /\ Len(reader.got) = 2
    /\ rlast.op = "read"
    /\ rlast.res = "EOF"
    /\ \E n \in FieldNames :
          /\ Declares(records, reader.of, n)
          /\ Declares(records, records[reader.of].parent, n)
          /\ reader.at[n] # Struct_get(records, reader.of, n)
    /\ \E n \in FieldNames :
          ~Declares(records, reader.of, n) /\ reader.at[n] # NoValue

\* What an accessor does at an index outside the vector and at an index inside it,
\* and what check_len does.
AccessorContract ==
    /\ (alast.op \in Accessors /\ alast.idx >= Len(alast.before)) =>
          (alast.res = "IndexOutOfBounds" /\ args = alast.before)
    /\ (alast.op \in Accessors /\ alast.idx < Len(alast.before)) =>
          /\ args = [alast.before EXCEPT ![alast.idx + 1] = Placeholder]
          /\ Len(args) = Len(alast.before)
          /\ alast.res = IF alast.op = "value" \/ alast.before[alast.idx + 1].value.t = alast.op
                         THEN "Ok" ELSE "InvalidValue"
          /\ alast.res = "Ok" => alast.ret = alast.before[alast.idx + 1].value
    /\ alast.op = "check_len" =>
          /\ alast.res = (IF Len(alast.before) = alast.len THEN "Ok" ELSE "ArgumentError")
          /\ args = alast.before

(***************************************************************************)
(* C18 as stated: an accessor at an index outside the vector fails with    *)
(* the index error and leaves the vector as it was; at an index inside it  *)
(* replaces the argument by the placeholder and returns the payload if the *)
(* variant is the one asked for, and fails with the invalid-value error    *)
(* otherwise; an accessor applied to an index an accessor was applied to   *)
(* before never returns the payload the argument had at first; check_len   *)
(* fails exactly when the length differs and leaves the vector as it was.  *)
(***************************************************************************)
C18_Original ==
    /\ AccessorContract
    /\ (alast.op \in Accessors /\ alast.again) =>
          ~(alast.res = "Ok" /\ alast.ret = args0[alast.idx + 1].value)

(***************************************************************************)
(* C18 amended: as stated, but of an accessor applied to an index an       *)
(* accessor was applied to before: string, integer, field, command and     *)
(* type fail with the invalid-value error, and value returns the           *)
(* placeholder, the boolean false, which is the payload the argument had   *)
(* at first only if that payload was the boolean false.                    *)
(***************************************************************************)
C18_ConsumingAccessors ==
    /\ AccessorContract
    /\ (alast.op \in Accessors /\ alast.again) =>
          /\ IF alast.op = "value"
             THEN alast.res = "Ok" /\ alast.ret = Placeholder.value
             ELSE alast.res = "InvalidValue"
          /\ args0[alast.idx + 1].value # Placeholder.value =>
                ~(alast.res = "Ok" /\ alast.ret = args0[alast.idx + 1].value)

\* the accessor of the variant the first of two arguments had is applied to it a second
\* time and fails; the second argument is still in the vector
C18_Witness ==
    /\ Len(args0) = 2
    /\ alast.again
    /\ alast.idx = 0
    /\ alast.op = args0[1].value.t
    /\ alast.op # "value"
    /\ alast.res = "InvalidValue"
    /\ args[1] = Placeholder
    /\ args[2] = args0[2]
    /\ args0[2] # Placeholder

\* The scopes s has registered with uses that declare the name, when no scope of the
\* lexical chain of s declares it.
UsedOnly(S, s, n) ==
    IF DeclaredAt(S, s, n) # {} THEN {}
    ELSE {o \in Range(S[s].uses) : contains_key(S, o, n)}

(***************************************************************************)
(* C20: after uses(other) on a scope S, a name declared in other only is   *)
(* seen through S as if S declared it: set on S of a value of the stored   *)
(* type succeeds and updates the binding (other not being readonly),       *)
(* remove on S removes it and returns its value, dump on S reports its     *)
(* type.                                                                   *)
(***************************************************************************)
C20_UsedVisible ==
    \A o \in (IF last.op \in {"set", "remove", "dump"}
               THEN UsedOnly(before, last.scope, "x") ELSE {}) :
        /\ (last.op = "set" /\ last.name = "x" /\ ~before[o].is_readonly
                /\ value_type(before[o].data["x"]) = value_type(last.value)) =>
              (last.res = "Ok" /\ scopes[o].data["x"] = last.value)
        /\ (last.op = "remove" /\ last.name = "x" /\ ~before[o].is_readonly) =>
              (last.value = before[o].data["x"] /\ ~contains_key(scopes, o, "x"))
        /\ last.op = "dump" => last.map["x"] = value_type(before[o].data["x"])

\* The body of for has just issued the operation on its own scope.
BodyIssued(op) == cmd = "for" /\ env # None /\ last.op = op /\ last.scope = env

C22_LookupBijective ==
    /\ \A r \in RecIds :
          /\ Len(records[r].lookup) = Len(records[r].cells)
          /\ \A i \in DOMAIN records[r].lookup, j \in DOMAIN records[r].lookup :
                records[r].lookup[i].idx = records[r].lookup[j].idx => i = j
          /\ {records[r].lookup[i].idx : i \in DOMAIN records[r].lookup} =
                0..(Len(records[r].cells) - 1)
    /\ (rlast.op = "set" /\ ~Declares(rbefore, rlast.rec, rlast.name)) =>
          /\ map_get(records[rlast.rec].lookup, rlast.name) = Len(records[rlast.rec].cells) - 1
          /\ \A n \in FieldNames \ {rlast.name} :
                map_get(records[rlast.rec].lookup, n) #
                    map_get(records[rlast.rec].lookup, rlast.name)
    /\ rlast.op = "query" => rlast.elements.res = "ok"

(***************************************************************************)
(* C23: two records that are equal have the same hash: they write the same *)
(* sequence to the Hasher, their cells in order and then their parent.     *)
(***************************************************************************)
C23_HashRespectsEq ==
    (rlast.op = "hash" /\ rlast.eq) => rlast.hashes[1] = rlast.hashes[2]

\* The k-th record up the delegation chain of a record (None: the chain ends before).
RECURSIVE Up(_, _, _)
Up(R, r, k) == IF k = 0 \/ r = None THEN r ELSE Up(R, R[r].parent, k - 1)

Acyclic(R) == \A r \in 1..Len(R) : Up(R, r, Len(R)) = None

(***************************************************************************)
(* C24: the delegation chain of every record is acyclic (following the     *)
(* parents from any record reaches a record without parent), so a call of  *)
(* get, keys or map never comes to a record it has already visited: it     *)
(* returns after at most as many records as there are.                     *)
(***************************************************************************)
C24_ChainsAcyclic ==
    /\ Acyclic(records)
    /\ rlast.res = "running" => rlast.at \notin rlast.seen

====
